---------------------------- MODULE Spec2Model ----------------------------
(***************************************************************************)
(* Airbolt GPS-tracker integration: the Tracker record kept by the hub,    *)
(* the HTTP client with its 401 handling, and the refresh coordinator.     *)
(*                                                                         *)
(*   SpecTracker  one Tracker driven by arbitrary update_device and        *)
(*                update_location calls                                    *)
(*   SpecClient   client calls against a server that may answer anything   *)
(*   Spec         the hub: start, adapters, refresh cycles                 *)
(***************************************************************************)
EXTENDS Integers, Sequences, FiniteSets, TLC

VARIABLES
    tracker,        \* SpecTracker: the Tracker the calls act on
    last,           \* SpecTracker: the last call made on it (op, argument, state before, result)
    located,        \* SpecTracker: update_location has been called on it
    authorization,  \* AirboltClient._session.headers["Authorization"]
    login_result,   \* AirboltClient._login_result (<<>> while unset)
    credentials,    \* AirboltClient._username, _password (<<>> while unset)
    stack,          \* per task: the _get/_post frames of its client call, innermost last
    call,           \* per task: the client method it is in (<<>> when in none)
    result,         \* per task: what its client call returned or raised (<<>> while running)
    log,            \* per task: the requests its call sent and the sleeps it made
    devices,        \* Hub._devices: device id -> Tracker, for the ids registered
    adapters,       \* the device ids a LocationTracker entity was created for
    contexts,       \* coordinator.async_contexts(): the ids of the subscribed adapters
    hub,            \* where Hub.start or the refresh cycle stands, with its locals
    data,           \* coordinator.data: the result last published (<<>> before the first)
    written,        \* the adapters that wrote their state in the refresh that just ended
    ended,          \* the refresh cycle that just ended (<<>> once the host is done with it)
    owed            \* the ids whose update_device returned True in a cycle, with no
                    \* result published since that has their "device" flag True

trackerVars == <<tracker, last, located>>

clientVars ==
    <<authorization, login_result, credentials, stack, call, result, log>>

hubVars == <<devices, adapters, contexts, hub, data, written, ended, owed>>

vars == <<tracker, last, located,
          authorization, login_result, credentials, stack, call, result, log,
          devices, adapters, contexts, hub, data, written, ended, owed>>

(***************************************************************************)
(* Bounds and value sets                                                   *)
(***************************************************************************)
\* HistoryEntry.time_created ranges over 1..MaxTime
MaxTime == 2
\* the server answers 401 to at most MaxLogin401 login requests of one call
MaxLogin401 == 2

DeviceIds == {"d1", "d2"}
Names == {"", "tag", "bag"}
\* FoundDevice.device_type is Literal["shield_gps"]
DeviceTypes == {"shield_gps"}

\* None is <<>>; an optional value v that is present is <<v>>
NoneValue == <<>>

FoundDevices ==
    [device_uuid : DeviceIds, name : Names, device_type : DeviceTypes]

\* the position part and the telemetry part of a report, as the vendor sends them;
\* accuracy is a float, kept in tenths of a metre (0.0, 807.9, 0.5);
\* modem_temperature is int | None
Positions ==
    {[latitude |-> 10, longitude |-> 20, accuracy |-> 0, address |-> "home"],
     [latitude |-> 11, longitude |-> 21, accuracy |-> 8079, address |-> "work"],
     [latitude |-> 10, longitude |-> 21, accuracy |-> 5, address |-> "work"]}

Telemetries ==
    {[alert_type |-> "Motion", modem_temperature |-> NoneValue],
     [alert_type |-> "SOS", modem_temperature |-> <<25>>]}

HistoryEntry(t, p, m) ==
    [time_created |-> t,
     latitude |-> p.latitude,
     longitude |-> p.longitude,
     accuracy |-> p.accuracy,
     address |-> p.address,
     alert_type |-> m.alert_type,
     modem_temperature |-> m.modem_temperature]

HistoryEntries ==
    {HistoryEntry(t, p, m) : t \in 1..MaxTime, p \in Positions, m \in Telemetries}

(***************************************************************************)
(* Results of calls: a returned value or a raised exception                *)
(***************************************************************************)
Return(v) == [exc |-> "none", val |-> v]
Raise(e) == [exc |-> e, val |-> NoneValue]

(***************************************************************************)
(* Tracker (hub.py)                                                        *)
(* _last_report is None (<<>>) or the stored HistoryEntry (<<entry>>)      *)
(***************************************************************************)
\* truth value of an optional object: None is falsy, a record is truthy
Truthy(opt) == Len(opt) > 0

update_device_ignoring_model(self, discovered_info) ==
    IF self._name = discovered_info.name
    THEN [self |-> self, ret |-> FALSE]
    ELSE [self |-> [self EXCEPT !._name = discovered_info.name,
                                !._model = discovered_info.device_type],
          ret |-> TRUE]

update_device(self, discovered_info) ==
    IF /\ self._name = discovered_info.name
       /\ self._model = discovered_info.device_type
    THEN [self |-> self, ret |-> FALSE]
    ELSE [self |-> [self EXCEPT !._name = discovered_info.name,
                                !._model = discovered_info.device_type],
          ret |-> TRUE]

\* Tracker.__init__: the fields as set before its call of update_device
TrackerFields(discovered_info) ==
    [_id |-> discovered_info.device_uuid,
     _name |-> "",
     _model |-> "",
     _last_report |-> NoneValue]

\* Tracker(discovered_info): the constructed object
Tracker(discovered_info) ==
    update_device(TrackerFields(discovered_info), discovered_info).self

update_location_merging(self, history_entry) ==
    IF /\ Truthy(self._last_report)
       /\ self._last_report[1].time_created = history_entry.time_created
    THEN [self |-> self, ret |-> FALSE]
    ELSE [self |-> [self EXCEPT !._last_report =
                        IF Truthy(self._last_report)
                        THEN <<[history_entry EXCEPT
                                  !.address = self._last_report[1].address]>>
                        ELSE <<history_entry>>],
          ret |-> TRUE]

update_location_comparing_position(self, history_entry) ==
    IF /\ Truthy(self._last_report)
       /\ self._last_report[1].latitude = history_entry.latitude
       /\ self._last_report[1].longitude = history_entry.longitude
    THEN [self |-> self, ret |-> FALSE]
    ELSE [self |-> [self EXCEPT !._last_report = <<history_entry>>],
          ret |-> TRUE]

update_location(self, history_entry) ==
    IF /\ Truthy(self._last_report)
       /\ self._last_report[1].time_created = history_entry.time_created
    THEN [self |-> self, ret |-> FALSE]
    ELSE [self |-> [self EXCEPT !._last_report = <<history_entry>>],
          ret |-> TRUE]

latitude(self) ==
    IF ~Truthy(self._last_report) THEN Raise("MissingDataError")
    ELSE Return(self._last_report[1].latitude)

longitude(self) ==
    IF ~Truthy(self._last_report) THEN Raise("MissingDataError")
    ELSE Return(self._last_report[1].longitude)

accuracy_defaulting_after_int(self) ==
    IF ~Truthy(self._last_report) THEN Raise("MissingDataError")
    ELSE Return(IF self._last_report[1].accuracy \div 10 = 0 THEN 10000
                ELSE self._last_report[1].accuracy \div 10)

\* int(accuracy or 10000): a zero accuracy is falsy; int() truncates
accuracy(self) ==
    IF ~Truthy(self._last_report) THEN Raise("MissingDataError")
    ELSE Return(IF self._last_report[1].accuracy = 0 THEN 10000
                ELSE self._last_report[1].accuracy \div 10)

address(self) ==
    IF ~Truthy(self._last_report) THEN Raise("MissingDataError")
    ELSE Return(self._last_report[1].address)

alert_type(self) ==
    IF ~Truthy(self._last_report) THEN Raise("MissingDataError")
    ELSE Return(self._last_report[1].alert_type)

last_report_time(self) ==
    IF ~Truthy(self._last_report) THEN Raise("MissingDataError")
    ELSE Return(self._last_report[1].time_created)

modem_temperature_or_none(self) ==
    IF ~Truthy(self._last_report) THEN Return(NoneValue)
    ELSE Return(self._last_report[1].modem_temperature)

modem_temperature(self) ==
    IF ~Truthy(self._last_report) THEN Raise("MissingDataError")
    ELSE Return(self._last_report[1].modem_temperature)

\* every location-derived accessor of a Tracker, read at once
Accessors(self) ==
    [latitude |-> latitude(self),
     longitude |-> longitude(self),
     accuracy |-> accuracy(self),
     address |-> address(self),
     alert_type |-> alert_type(self),
     last_report_time |-> last_report_time(self),
     modem_temperature |-> modem_temperature(self)]

AccessorNames ==
    {"latitude", "longitude", "accuracy", "address", "alert_type",
     "last_report_time", "modem_temperature"}

\* the record of the last call when none was made
NoCall == [op |-> "none", arg |-> NoneValue, before |-> NoneValue, ret |-> FALSE]

(***************************************************************************)
(* AirboltClient (client.py)                                               *)
(***************************************************************************)
Tasks == {"t1", "t2"}
\* statuses the server may answer: 200, 401, another client error, a server
\* error
Statuses == {200, 401, 403, 500}
\* the auth_header of a LoginResult
Tokens == {"Bearer A", "Bearer B"}
\* a username with its password
Credentials == {"user:pw1", "user:pw2"}
Methods == {"login", "get_user_info", "find_devices", "get_device_history_page"}

\* a body is <<>> when it does not parse against the schema, <<v>> when it
\* parses to v
LoginBodies == {NoneValue} \cup {<<[auth_header |-> k]>> : k \in Tokens}

\* AirboltClient.__init__
InitClient ==
    /\ authorization = ""
    /\ login_result = NoneValue
    /\ credentials = NoneValue
    /\ stack = [t \in Tasks |-> <<>>]
    /\ call = [t \in Tasks |-> NoneValue]
    /\ result = [t \in Tasks |-> NoneValue]
    /\ log = [t \in Tasks |-> <<>>]

\* the hub between calls: at pc, its locals dropped; raised is what the last
\* start ended with
HubAt(pc, raised) ==
    [pc |-> pc, raised |-> raised, todo |-> <<>>, cur |-> NoneValue,
     listening_tracker_ids |-> {}, remaining |-> {},
     coordinator_data |-> NoneValue, fetched |-> << >>,
     before |-> << >>, allOk |-> TRUE,
     subscribed |-> {}, requested |-> {}, found |-> NoneValue,
     op |-> "none", cause |-> NoneValue]

\* Hub.__init__ and AirboltCoordinator.__init__: nothing registered, no
\* entity, no result published
InitHub ==
    /\ devices = << >>
    /\ adapters = {}
    /\ contexts = {}
    /\ hub = HubAt("new", "none")
    /\ data = NoneValue
    /\ written = {}
    /\ ended = NoneValue
    /\ owed = {}

\* a frame of _get or _post entering its loop: retry = True, no response yet
Frame(fn) == [fn |-> fn, pc |-> "request", retry |-> TRUE, status |-> 0]

Top(t) == stack[t][Len(stack[t])]
Below(t) == SubSeq(stack[t], 1, Len(stack[t]) - 1)

ClientResponseError(status) == [exc |-> "ClientResponseError", val |-> <<status>>]

\* response.raise_for_status() and the return "" after it
raise_for_status(status) ==
    IF status >= 400 THEN ClientResponseError(status) ELSE Return("")

\* parse_raw of the text a helper returned: "" and a mismatching body fail
parse_raw(ret) ==
    IF ret.exc # "none" THEN ret
    ELSE IF ret.val = "" \/ ret.val = NoneValue THEN Raise("ValidationError")
    ELSE Return(ret.val[1])

\* retry = False, set before the 401 branch: the flag the loop condition reads
RetryAfter401(retry) == FALSE

\* the call of task t ends: every frame is left, the result is kept
Finish(t, r) ==
    /\ stack' = [stack EXCEPT ![t] = <<>>]
    /\ result' = [result EXCEPT ![t] = <<r>>]

Reauthenticated_first_wins(t, ret) ==
    LET parsed == parse_raw(ret) IN
    IF parsed.exc # "none"
    THEN /\ Finish(t, parsed)
         /\ UNCHANGED <<authorization, login_result>>
    ELSE /\ login_result' = IF login_result = NoneValue THEN <<parsed.val>>
                            ELSE login_result
         /\ authorization' = IF login_result = NoneValue
                             THEN parsed.val.auth_header ELSE authorization
         /\ IF Len(stack[t]) = 1
            THEN Finish(t, Return(parsed.val))
            ELSE LET caller == stack[t][Len(stack[t]) - 1] IN
                 IF caller.retry
                 THEN /\ stack' = [stack EXCEPT ![t] =
                            Append(SubSeq(stack[t], 1, Len(stack[t]) - 2),
                                   [caller EXCEPT !.pc = "request"])]
                      /\ UNCHANGED result
                 ELSE Finish(t, parse_raw(raise_for_status(caller.status)))

Reauthenticated_stale_header(t, ret) ==
    LET parsed == parse_raw(ret) IN
    IF parsed.exc # "none"
    THEN /\ Finish(t, parsed)
         /\ UNCHANGED <<authorization, login_result>>
    ELSE /\ login_result' = <<parsed.val>>
         /\ authorization' = IF login_result = NoneValue
                             THEN parsed.val.auth_header ELSE authorization
         /\ IF Len(stack[t]) = 1
            THEN Finish(t, Return(parsed.val))
            ELSE LET caller == stack[t][Len(stack[t]) - 1] IN
                 IF caller.retry
                 THEN /\ stack' = [stack EXCEPT ![t] =
                            Append(SubSeq(stack[t], 1, Len(stack[t]) - 2),
                                   [caller EXCEPT !.pc = "request"])]
                      /\ UNCHANGED result
                 ELSE Finish(t, parse_raw(raise_for_status(caller.status)))

\* _reauthenticate after its _post returned `ret`, and then the code that
\* called _reauthenticate: login(), or the frame below in its 401 branch
Reauthenticated(t, ret) ==
    LET parsed == parse_raw(ret) IN
    IF parsed.exc # "none"
    THEN /\ Finish(t, parsed)
         /\ UNCHANGED <<authorization, login_result>>
    ELSE /\ login_result' = <<parsed.val>>
         /\ authorization' = parsed.val.auth_header
         /\ IF Len(stack[t]) = 1
            THEN Finish(t, Return(parsed.val))
            ELSE LET caller == stack[t][Len(stack[t]) - 1] IN
                 IF caller.retry
                 THEN /\ stack' = [stack EXCEPT ![t] =
                            Append(SubSeq(stack[t], 1, Len(stack[t]) - 2),
                                   [caller EXCEPT !.pc = "request"])]
                      /\ UNCHANGED result
                 ELSE \* the caller's loop ends; what it raises passes every frame
                      Finish(t, parse_raw(raise_for_status(caller.status)))

\* a helper (_get or _post) of task t returns or raises `ret` to its caller
HelperEnds(t, ret) ==
    IF Top(t).fn = "_post"
    THEN IF ret.exc # "none"
         THEN Finish(t, ret) /\ UNCHANGED <<authorization, login_result>>
         ELSE Reauthenticated(t, ret)
    ELSE Finish(t, parse_raw(ret)) /\ UNCHANGED <<authorization, login_result>>

\* task t enters a client method (c: the credentials given to login)
Enter(t, method, c) ==
    /\ call' = [call EXCEPT ![t] = <<method>>]
    /\ log' = [log EXCEPT ![t] = <<>>]
    /\ credentials' = IF method = "login" THEN <<c>> ELSE credentials
    /\ IF method = "find_devices" /\ login_result = NoneValue
       THEN \* self._login_result.id
            Finish(t, Raise("AttributeError"))
       ELSE /\ stack' = [stack EXCEPT ![t] =
                  <<Frame(IF method = "login" THEN "_post" ELSE "_get")>>]
            /\ result' = [result EXCEPT ![t] = NoneValue]
    /\ UNCHANGED <<authorization, login_result>>

\* a task that is in no client method calls one
ClientCall(t, method, c) ==
    /\ call[t] = NoneValue
    /\ Enter(t, method, c)

\* the request of the innermost helper is sent and answered
ClientRequest(t, status, body) ==
    /\ stack[t] # <<>>
    /\ Top(t).pc = "request"
    /\ log' = [log EXCEPT ![t] = Append(@,
            [ev |-> IF Top(t).fn = "_get" THEN "GET" ELSE "POST",
             status |-> status,
             valid |-> body # NoneValue,
             token |-> IF Top(t).fn = "_post" /\ status = 200 /\ body # NoneValue
                       THEN body[1].auth_header ELSE ""])]
    /\ IF status = 200
       THEN HelperEnds(t, Return(body))
       ELSE IF status = 401
       THEN /\ stack' = [stack EXCEPT ![t] = Append(Below(t),
                  [Top(t) EXCEPT !.retry = RetryAfter401(@),
                                 !.status = status,
                                 !.pc = "sleep"])]
            /\ UNCHANGED <<authorization, login_result, result>>
       ELSE HelperEnds(t, raise_for_status(status))
    /\ UNCHANGED <<credentials, call>>

\* asyncio.sleep(500) is over: _reauthenticate is entered and posts the login
ClientWake(t) ==
    /\ stack[t] # <<>>
    /\ Top(t).pc = "sleep"
    /\ log' = [log EXCEPT ![t] = Append(@,
            [ev |-> "sleep", status |-> 0, valid |-> FALSE,
             token |-> ""])]
    /\ IF credentials = NoneValue
       THEN \* self._username
            Finish(t, Raise("AttributeError"))
       ELSE /\ stack' = [stack EXCEPT ![t] = Append(Below(t),
                  [Top(t) EXCEPT !.pc = "reauthenticate"]) \o <<Frame("_post")>>]
            /\ UNCHANGED result
    /\ UNCHANGED <<authorization, login_result, credentials, call>>

\* the caller takes the result of its call
ClientReturn(t) ==
    /\ result[t] # NoneValue
    /\ result' = [result EXCEPT ![t] = NoneValue]
    /\ call' = [call EXCEPT ![t] = NoneValue]
    /\ log' = [log EXCEPT ![t] = <<>>]
    /\ UNCHANGED <<authorization, login_result, credentials, stack>>

(***************************************************************************)
(* SpecClient: tasks calling the client, the server answering anything     *)
(***************************************************************************)
\* the events of a task's log that are login requests answered 401
Login401s(t) == {i \in 1..Len(log[t]) : log[t][i].ev = "POST" /\ log[t][i].status = 401}

\* what the server may answer to the request task t is about to send
Answers(t) ==
    IF Top(t).fn = "_post" /\ Cardinality(Login401s(t)) >= MaxLogin401
    THEN Statuses \ {401}
    ELSE Statuses

\* the bodies a 200 may carry for the request task t is about to send
BodiesFor(t) ==
    IF Top(t).fn = "_post" THEN LoginBodies
    ELSE {NoneValue, <<call[t][1]>>}

HarnessCall ==
    \E t \in Tasks, method \in Methods, c \in Credentials :
        /\ method # "login" => c = "user:pw1"
        /\ ClientCall(t, method, c)
        /\ UNCHANGED trackerVars
        /\ UNCHANGED hubVars

HarnessRequest ==
    \E t \in Tasks :
        /\ stack[t] # <<>>
        /\ \E status \in Answers(t) :
             \E body \in (IF status = 200 THEN BodiesFor(t) ELSE {NoneValue}) :
                ClientRequest(t, status, body)
        /\ UNCHANGED trackerVars
        /\ UNCHANGED hubVars

HarnessWake ==
    \E t \in Tasks : ClientWake(t) /\ UNCHANGED trackerVars /\ UNCHANGED hubVars

HarnessReturn ==
    \E t \in Tasks : ClientReturn(t) /\ UNCHANGED trackerVars /\ UNCHANGED hubVars

InitClientHarness ==
    /\ InitClient
    /\ tracker = Tracker([device_uuid |-> "d1", name |-> "",
                          device_type |-> "shield_gps"])
    /\ last = NoCall
    /\ located = FALSE
    /\ InitHub

NextClient == HarnessCall \/ HarnessRequest \/ HarnessWake \/ HarnessReturn

SpecClient == InitClientHarness /\ [][NextClient]_vars

(***************************************************************************)
(* Hub and AirboltCoordinator (hub.py), LocationTracker (device_tracker.py)*)
(* The hub makes its client calls as task "t1".                            *)
(***************************************************************************)
HubTask == "t1"
\* asyncio.sleep(500) in the client, async_timeout.timeout(10) in the cycle
SleepSeconds == 500
TimeoutSeconds == 10

\* the owner renames device d1 between "tag" and "bag"; d2 keeps its name
HubNames == {"tag", "bag"}
Found(id, n) == [device_uuid |-> id, name |-> n, device_type |-> "shield_gps"]

\* what the device listing may parse to
DeviceLists ==
    {<<>>, <<Found("d2", "key")>>}
    \cup {<<Found("d1", n)>> : n \in HubNames}
    \cup {<<Found("d1", n), Found("d2", "key")>> : n \in HubNames}

\* the reports the vendor holds: an early one and a late one
VendorEntries ==
    {HistoryEntry(1,
        [latitude |-> 10, longitude |-> 20, accuracy |-> 0, address |-> "home"],
        [alert_type |-> "Motion", modem_temperature |-> NoneValue]),
     HistoryEntry(MaxTime,
        [latitude |-> 11, longitude |-> 21, accuracy |-> 8079, address |-> "work"],
        [alert_type |-> "SOS", modem_temperature |-> <<25>>])}

\* DeviceHistoryPage for page=1, page_size=1: a failed query carries no
\* entry, a successful one the newest entry or, for a device without reports,
\* none
Pages ==
    {[success |-> FALSE, data |-> <<>>], [success |-> TRUE, data |-> <<>>]}
    \cup {[success |-> TRUE, data |-> <<e>>] : e \in VendorEntries}

\* subclasses of Exception that the code of a cycle can raise
ExceptionKinds ==
    {"ClientResponseError", "ValidationError", "AttributeError", "KeyError",
     "IndexError", "TimeoutError"}

\* except HTTPClientError in Hub._login: aiohttp.web's exception class
login_except(exc) ==
    IF exc = "HTTPClientError" THEN "InvalidCredentials" ELSE exc

ExceptClause_http_only(exc) ==
    IF exc = "ClientResponseError" THEN "UpdateFailed" ELSE exc

\* except Exception in _async_update_data
ExceptClause(exc) ==
    IF exc \in ExceptionKinds THEN "UpdateFailed" ELSE exc

\* collections.defaultdict(dict): every id reads as a dict, empty at first
EmptyData == [i \in DeviceIds |-> [device |-> NoneValue, location |-> NoneValue]]

\* the hub's task has its result
HubDone == result[HubTask] # NoneValue
HubResult == result[HubTask][1]
InCycle == hub.pc \in {"cycle_find", "cycle_history"}

\* every request of the call just made was answered 200 with a valid body
LogOk == \A i \in 1..Len(log[HubTask]) :
            log[HubTask][i].status = 200 /\ log[HubTask][i].valid

\* Hub.start begins: _login
HubStart ==
    \E c \in {"user:pw1"} :
        /\ hub.pc \in {"new", "failed"}
        /\ Enter(HubTask, "login", c)
        /\ hub' = [HubAt("start_login", "none") EXCEPT !.op = "start",
                                                       !.before = devices]
        /\ UNCHANGED <<devices, adapters, contexts, data, written, ended, owed>>
        /\ UNCHANGED trackerVars

\* Hub.verify_credentials begins: _login
HubVerifyCredentials ==
    \E c \in {"user:pw1"} :
        /\ hub.pc \in {"new", "failed"}
        /\ Enter(HubTask, "login", c)
        /\ hub' = [HubAt("verify_login", "none") EXCEPT
                      !.op = "verify_credentials",
                      !.before = devices]
        /\ UNCHANGED <<devices, adapters, contexts, data, written, ended, owed>>
        /\ UNCHANGED trackerVars

\* Hub.start or Hub.verify_credentials is over at pc, having raised exc
\* ("none" when it returned); cause is what the client's login raised, when
\* it did
HubEnds(pc, exc, cause, found, fetched) ==
    /\ hub' = [HubAt(pc, exc) EXCEPT !.op = hub.op,
                                     !.before = hub.before,
                                     !.cause = cause,
                                     !.found = found,
                                     !.fetched = fetched,
                                     !.allOk = hub.allOk /\ LogOk]
    /\ ClientReturn(HubTask)
    /\ UNCHANGED <<adapters, contexts, data, written, ended, owed>>

\* Hub.start raises
StartFails(exc, found, fetched) ==
    HubEnds("failed", exc, NoneValue, found, fetched)

\* Hub.start fetches the history of device d
StartFetch(d, rest, found, fetched) ==
    /\ Enter(HubTask, "get_device_history_page", "user:pw1")
    /\ hub' = [hub EXCEPT !.pc = "start_history",
                          !.cur = <<d>>,
                          !.todo = rest,
                          !.found = found,
                          !.fetched = fetched,
                          !.allOk = hub.allOk /\ LogOk]
    /\ UNCHANGED <<adapters, contexts, data, written, ended, owed>>

\* Hub._login returned or raised inside verify_credentials
HubVerified ==
    /\ hub.pc = "verify_login"
    /\ HubDone
    /\ IF HubResult.exc # "none"
       THEN HubEnds("failed", login_except(HubResult.exc), <<HubResult>>,
                    NoneValue, << >>)
       ELSE HubEnds("new", "none", NoneValue, NoneValue, << >>)
    /\ UNCHANGED devices
    /\ UNCHANGED trackerVars

\* _login returned or raised; then find_devices
HubStartLoggedIn ==
    /\ hub.pc = "start_login"
    /\ HubDone
    /\ IF HubResult.exc # "none"
       THEN HubEnds("failed", login_except(HubResult.exc), <<HubResult>>,
                    NoneValue, << >>)
       ELSE /\ Enter(HubTask, "find_devices", "user:pw1")
            /\ hub' = [hub EXCEPT !.pc = "start_find",
                                  !.allOk = hub.allOk /\ LogOk]
            /\ UNCHANGED <<adapters, contexts, data, written, ended, owed>>
    /\ UNCHANGED devices
    /\ UNCHANGED trackerVars

\* find_devices returned or raised; then the history of the first device
HubStartFound ==
    /\ hub.pc = "start_find"
    /\ HubDone
    /\ IF HubResult.exc # "none"
       THEN StartFails(HubResult.exc, NoneValue, << >>)
       ELSE IF HubResult.val = <<>>
       THEN HubEnds("started", "none", NoneValue, <<HubResult.val>>, << >>)
       ELSE StartFetch(Head(HubResult.val), Tail(HubResult.val),
                       <<HubResult.val>>, << >>)
    /\ UNCHANGED devices
    /\ UNCHANGED trackerVars

\* the Tracker that start builds from a device and its history page
known_device(discovered_device, device_history) ==
    IF device_history.success
    THEN update_location(Tracker(discovered_device), device_history.data[1]).self
    ELSE Tracker(discovered_device)

\* self._devices[known_device.id] = known_device
Register(devs, t) ==
    [i \in (DOMAIN devs) \cup {t._id} |-> IF i = t._id THEN t ELSE devs[i]]

\* the history page of the current device returned or raised; the Tracker
\* is built and registered; then the next device
HubStartHistory ==
    /\ hub.pc = "start_history"
    /\ HubDone
    /\ IF HubResult.exc # "none"
       THEN StartFails(HubResult.exc, hub.found, hub.fetched) /\ UNCHANGED devices
       ELSE LET id == hub.cur[1].device_uuid
                fetched == [i \in (DOMAIN hub.fetched) \cup {id} |->
                               IF i = id THEN HubResult.val ELSE hub.fetched[i]]
            IN  IF HubResult.val.success /\ HubResult.val.data = <<>>
                THEN \* device_history.data[0] of an empty list
                     StartFails("IndexError", hub.found, fetched)
                     /\ UNCHANGED devices
                ELSE /\ devices' = Register(devices,
                                            known_device(hub.cur[1], HubResult.val))
                     /\ IF hub.todo = <<>>
                        THEN HubEnds("started", "none", NoneValue, hub.found, fetched)
                        ELSE StartFetch(Head(hub.todo), Tail(hub.todo),
                                        hub.found, fetched)
    /\ UNCHANGED trackerVars

\* async_setup_entry, called once start has returned: one LocationTracker
\* per registered device
SetupEntry ==
    /\ hub.pc = "started"
    /\ adapters' = DOMAIN devices
    /\ hub' = HubAt("idle", "none")
    /\ UNCHANGED <<devices, contexts, data, written, ended, owed>>
    /\ UNCHANGED <<trackerVars, clientVars>>

\* an entity is added to the host: it listens with context = tracker.id.
\* The contexts are read when a cycle begins and when its result is
\* published: a change during the cycle is taken before discovery returns.
Subscribe ==
    \E id \in adapters \ contexts :
        /\ hub.pc \in {"idle", "cycle_find"}
        /\ contexts' = contexts \cup {id}
        /\ UNCHANGED <<devices, adapters, hub, data, written, ended, owed>>
        /\ UNCHANGED <<trackerVars, clientVars>>

\* an entity is removed from the host
Unsubscribe ==
    \E id \in contexts :
        /\ hub.pc \in {"idle", "cycle_find"}
        /\ contexts' = contexts \ {id}
        /\ UNCHANGED <<devices, adapters, hub, data, written, ended, owed>>
        /\ UNCHANGED <<trackerVars, clientVars>>

handle_coordinator_update_any_id(d, id) ==
    \E i \in DeviceIds : d[i].device = <<TRUE>> \/ d[i].location = <<TRUE>>

\* LocationTracker._handle_coordinator_update: whether the entity writes
handle_coordinator_update(d, id) ==
    \/ d[id].device = <<TRUE>>
    \/ d[id].location = <<TRUE>>

\* the ids whose Tracker shows another name or model in devs than in before:
\* update_device has returned True for them
Changed(before, devs) ==
    {id \in DOMAIN before :
        \/ devs[id]._name # before[id]._name
        \/ devs[id]._model # before[id]._model}

\* the cycle raised exc inside its try block; devs is the registry then
CycleFails(exc, devs, found, fetched, allOk) ==
    /\ ended' = <<[outcome |-> ExceptClause(exc), raised |-> exc,
                   listening |-> hub.listening_tracker_ids,
                   fetched |-> fetched, before |-> hub.before, allOk |-> allOk,
                   subscribed |-> hub.subscribed, requested |-> hub.requested,
                   found |-> found, log |-> log[HubTask], owed |-> owed]>>
    /\ hub' = HubAt("refreshed", "none")
    /\ written' = {}
    /\ owed' = owed \cup Changed(hub.before, devs)
    /\ UNCHANGED <<adapters, contexts, data>>

\* return coordinator_data: the host publishes it and calls every listener
Publish(cd, found, fetched, allOk) ==
    /\ ended' = <<[outcome |-> "ok", raised |-> "none",
                   listening |-> hub.listening_tracker_ids,
                   fetched |-> fetched, before |-> hub.before, allOk |-> allOk,
                   subscribed |-> hub.subscribed, requested |-> hub.requested,
                   found |-> found, log |-> log[HubTask], owed |-> owed]>>
    /\ owed' = owed \ {id \in DeviceIds : cd[id].device = <<TRUE>>}
    /\ data' = <<cd>>
    /\ written' = {id \in contexts : handle_coordinator_update(cd, id)}
    /\ hub' = HubAt("refreshed", "none")
    /\ UNCHANGED <<adapters, contexts>>

async_contexts_of_all_devices(listeners) == DOMAIN devices

\* set(self.async_contexts()): the contexts of the coordinator's listeners
async_contexts(listeners) == listeners

\* _async_update_data begins: the contexts are read, find_devices is called
CycleBegin ==
    /\ hub.pc = "idle"
    /\ Enter(HubTask, "find_devices", "user:pw1")
    /\ hub' = [HubAt("cycle_find", "none") EXCEPT
                  !.listening_tracker_ids = async_contexts(contexts),
                  !.subscribed = contexts,
                  !.coordinator_data = <<EmptyData>>,
                  !.before = devices]
    /\ UNCHANGED <<devices, adapters, contexts, data, written, ended, owed>>
    /\ UNCHANGED trackerVars

\* the host is done with the refresh and waits for the next one
RefreshOver ==
    /\ hub.pc = "refreshed"
    /\ hub' = HubAt("idle", "none")
    /\ ended' = NoneValue
    /\ written' = {}
    /\ UNCHANGED <<devices, adapters, contexts, data, owed>>
    /\ UNCHANGED <<trackerVars, clientVars>>

RECURSIVE Discover_flagging_new(_, _, _)
Discover_flagging_new(found, devs, cd) ==
    IF found = <<>> THEN [devices |-> devs, coordinator_data |-> cd]
    ELSE LET discovered_device == Head(found)
             tracker_id == discovered_device.device_uuid
         IN  IF tracker_id \in DOMAIN devs
             THEN LET r == update_device(devs[tracker_id], discovered_device) IN
                  Discover_flagging_new(Tail(found),
                           [devs EXCEPT ![tracker_id] = r.self],
                           [cd EXCEPT ![tracker_id].device = <<r.ret>>])
             ELSE Discover_flagging_new(Tail(found),
                           Register(devs, Tracker(discovered_device)),
                           [cd EXCEPT ![tracker_id].device = <<TRUE>>])

\* the discovery loop over the devices found
RECURSIVE Discover(_, _, _)
Discover(found, devs, cd) ==
    IF found = <<>> THEN [devices |-> devs, coordinator_data |-> cd]
    ELSE LET discovered_device == Head(found)
             tracker_id == discovered_device.device_uuid
         IN  IF tracker_id \in DOMAIN devs
             THEN LET r == update_device(devs[tracker_id], discovered_device) IN
                  Discover(Tail(found),
                           [devs EXCEPT ![tracker_id] = r.self],
                           [cd EXCEPT ![tracker_id].device = <<r.ret>>])
             ELSE Discover(Tail(found),
                           Register(devs, Tracker(discovered_device)),
                           cd)

\* the loop over the listening ids goes on: the next id's history is asked
\* for, or the loop is over and the result is returned
Listen(remaining, devs, cd, found, fetched, allOk) ==
    IF remaining = {}
    THEN Publish(cd, found, fetched, allOk) /\ ClientReturn(HubTask)
    ELSE \E tracker_id \in remaining :
            IF tracker_id \notin DOMAIN devs
            THEN CycleFails("KeyError", devs, found, fetched, allOk)
                 /\ ClientReturn(HubTask)
            ELSE /\ Enter(HubTask, "get_device_history_page", "user:pw1")
                 /\ hub' = [hub EXCEPT !.pc = "cycle_history",
                                       !.cur = <<tracker_id>>,
                                       !.remaining = remaining \ {tracker_id},
                                       !.requested = @ \cup {tracker_id},
                                       !.found = found,
                                       !.coordinator_data = <<cd>>,
                                       !.fetched = fetched,
                                       !.allOk = allOk]
                 /\ UNCHANGED <<adapters, contexts, data, written, ended, owed>>

\* find_devices returned or raised inside the cycle
CycleFound ==
    /\ hub.pc = "cycle_find"
    /\ HubDone
    /\ IF HubResult.exc # "none"
       THEN /\ CycleFails(HubResult.exc, devices, NoneValue, hub.fetched, FALSE)
            /\ ClientReturn(HubTask)
            /\ UNCHANGED devices
       ELSE LET d == Discover(HubResult.val, devices, hub.coordinator_data[1]) IN
            /\ devices' = d.devices
            /\ Listen(hub.listening_tracker_ids, d.devices, d.coordinator_data,
                      <<HubResult.val>>, hub.fetched, hub.allOk /\ LogOk)
    /\ UNCHANGED trackerVars

\* the history page of a listening id returned or raised inside the cycle
CycleHistory ==
    /\ hub.pc = "cycle_history"
    /\ HubDone
    /\ LET tracker_id == hub.cur[1] IN
       IF HubResult.exc # "none"
       THEN /\ CycleFails(HubResult.exc, devices, hub.found, hub.fetched, FALSE)
            /\ ClientReturn(HubTask)
       ELSE LET page == HubResult.val
                fetched == [i \in (DOMAIN hub.fetched) \cup {tracker_id} |->
                               IF i = tracker_id THEN page ELSE hub.fetched[i]]
            IN  IF page.success
                THEN \* tracker.update(...): Tracker has no attribute update
                     /\ CycleFails("AttributeError", devices, hub.found, fetched,
                                   hub.allOk /\ LogOk)
                     /\ ClientReturn(HubTask)
                ELSE Listen(hub.remaining, devices, hub.coordinator_data[1],
                            hub.found, fetched, hub.allOk /\ LogOk)
    /\ UNCHANGED devices
    /\ UNCHANGED trackerVars

\* async_timeout.timeout(10) expires while the cycle awaits the client
CycleTimeout ==
    /\ InCycle
    /\ ~HubDone
    /\ CycleFails("TimeoutError", devices, hub.found, hub.fetched, FALSE)
    /\ stack' = [stack EXCEPT ![HubTask] = <<>>]
    /\ call' = [call EXCEPT ![HubTask] = NoneValue]
    /\ log' = [log EXCEPT ![HubTask] = <<>>]
    /\ UNCHANGED <<authorization, login_result, credentials, result>>
    /\ UNCHANGED devices
    /\ UNCHANGED trackerVars

\* what the server may send with a 200 to the hub's request
HubBodies ==
    IF Top(HubTask).fn = "_post" THEN {NoneValue, <<[auth_header |-> "Bearer A"]>>}
    ELSE IF call[HubTask] = <<"find_devices">>
    THEN {NoneValue} \cup {<<l>> : l \in DeviceLists}
    ELSE {NoneValue} \cup {<<p>> : p \in Pages}

HubRequest ==
    /\ stack[HubTask] # <<>>
    /\ \E status \in Answers(HubTask) :
         \E body \in (IF status = 200 THEN HubBodies ELSE {NoneValue}) :
            ClientRequest(HubTask, status, body)
    /\ UNCHANGED hubVars
    /\ UNCHANGED trackerVars

\* the client's sleep ends, unless the cycle's timeout ends first
HubWake ==
    /\ InCycle => SleepSeconds < TimeoutSeconds
    /\ ClientWake(HubTask)
    /\ UNCHANGED hubVars
    /\ UNCHANGED trackerVars

Init ==
    /\ InitClient
    /\ InitHub
    /\ tracker = Tracker([device_uuid |-> "d1", name |-> "",
                          device_type |-> "shield_gps"])
    /\ last = NoCall
    /\ located = FALSE

Next ==
    \/ HubStart
    \/ HubVerifyCredentials
    \/ HubVerified
    \/ HubStartLoggedIn
    \/ HubStartFound
    \/ HubStartHistory
    \/ SetupEntry
    \/ Subscribe
    \/ Unsubscribe
    \/ CycleBegin
    \/ CycleFound
    \/ CycleHistory
    \/ CycleTimeout
    \/ RefreshOver
    \/ HubRequest
    \/ HubWake

Spec == Init /\ [][Next]_vars

(***************************************************************************)
(* Properties of the refresh cycle (Spec)                                  *)
(***************************************************************************)
\* the history pages of the cycle that just ended which reported success
\* and carry an entry
Reported(id) ==
    /\ id \in DOMAIN ended[1].fetched
    /\ ended[1].fetched[id].success
    /\ ended[1].fetched[id].data # <<>>

\* C2: for every subscribed id whose history fetch reported success,
\* update_location is applied to its Tracker with the first entry of the page
\* and the boolean it returns is published under "location" for that id.
C2_LocationResultPublished ==
    ended # NoneValue =>
        \A id \in DeviceIds :
            Reported(id) =>
                LET r == update_location(ended[1].before[id],
                                         ended[1].fetched[id].data[1])
                IN  /\ ended[1].outcome = "ok"
                    /\ data[1][id].location = <<r.ret>>
                    /\ devices[id]._last_report = r.self._last_report

\* C3: a cycle in which every request was answered 200 with a valid body and
\* which fetched, for a subscribed device, an entry whose timestamp is not
\* the stored one, completes with that device marked changed, the entry
\* stored in the Tracker and the device's adapter writing its state.
C3_NewReportReachesAdapter ==
    ended # NoneValue =>
        \A id \in DeviceIds :
            ( /\ ended[1].allOk
              /\ \A i \in DOMAIN ended[1].fetched :
                    ended[1].fetched[i].success => ended[1].fetched[i].data # <<>>
              /\ Reported(id)
              /\ id \in contexts
              /\ LET stored == ended[1].before[id]._last_report IN
                 \/ stored = <<>>
                 \/ stored[1].time_created # ended[1].fetched[id].data[1].time_created )
            => /\ ended[1].outcome = "ok"
               /\ data[1][id].location = <<TRUE>>
               /\ devices[id]._last_report = ended[1].fetched[id].data
               /\ id \in written

\* C10: whatever is raised inside a refresh cycle, the cycle ends with
\* UpdateFailed; a cycle in which nothing is raised returns its result; no
\* other error kind leaves the cycle.
C10_OnlyUpdateFailedEscapes ==
    ended # NoneValue =>
        /\ ended[1].outcome \in {"ok", "UpdateFailed"}
        /\ ended[1].raised # "none" => ended[1].outcome = "UpdateFailed"
        /\ ended[1].raised = "none" => ended[1].outcome = "ok"

\* a cycle that raised something other than an HTTP error after it had
\* fetched the page of a listening device
C10_Witness ==
    /\ ended # NoneValue
    /\ ended[1].raised = "AttributeError"
    /\ ended[1].listening # {}
    /\ ended[1].outcome = "UpdateFailed"

\* C11: when a cycle ends with UpdateFailed, every Tracker that was in the
\* registry when the cycle began shows the name, the model and the last
\* location it showed then.
C11_FailedCycleChangesNothing ==
    (ended # NoneValue /\ ended[1].outcome = "UpdateFailed") =>
        \A id \in DOMAIN ended[1].before :
            /\ id \in DOMAIN devices
            /\ devices[id] = ended[1].before[id]

\* the devices the cycle that just ended discovered
FoundIn(e) == {e.found[1][i] : i \in 1..Len(e.found[1])}

\* C12: after the discovery of a cycle, a discovered device whose id was
\* registered has had update_device applied to its Tracker, and a cycle that
\* returns publishes the boolean under "device"; a discovered device whose id
\* was not registered has a new Tracker built from it, and a cycle that
\* returns publishes no flag for it; the other Trackers are as they were.
C12_DiscoveryUpdatesOrRegisters ==
    (ended # NoneValue /\ ended[1].found # NoneValue) =>
        LET e == ended[1] IN
        /\ \A d \in FoundIn(e) :
              LET id == d.device_uuid IN
              IF id \in DOMAIN e.before
              THEN LET r == update_device(e.before[id], d) IN
                   /\ devices[id] = r.self
                   /\ e.outcome = "ok" => data[1][id].device = <<r.ret>>
              ELSE /\ id \in DOMAIN devices
                   /\ devices[id] = Tracker(d)
                   /\ e.outcome = "ok" => data[1][id] = EmptyData[id]
        /\ \A id \in DOMAIN devices \ {d.device_uuid : d \in FoundIn(e)} :
              /\ id \in DOMAIN e.before
              /\ devices[id] = e.before[id]
              /\ e.outcome = "ok" => data[1][id].device = NoneValue

\* a cycle that returned after it had found a renamed known device and a
\* device not yet registered
C12_Witness ==
    /\ ended # NoneValue
    /\ ended[1].outcome = "ok"
    /\ ended[1].found # NoneValue
    /\ \E d \in FoundIn(ended[1]) :
          /\ d.device_uuid \in DOMAIN ended[1].before
          /\ data[1][d.device_uuid].device = <<TRUE>>
    /\ \E d \in FoundIn(ended[1]) : d.device_uuid \notin DOMAIN ended[1].before

\* C13 as stated: in every cycle the ids a history request is sent for are
\* exactly the ids subscribed when the cycle began.
C13_RequestsExactlySubscribed ==
    ended # NoneValue => ended[1].requested = ended[1].subscribed

\* C13: in every cycle the ids a history request is sent for are among the
\* ids subscribed when the cycle began, so none is sent for a device that is
\* known but not subscribed; a cycle that returns its result has sent one for
\* every subscribed id.
C13_RequestsOnlySubscribed ==
    /\ hub.requested \subseteq hub.subscribed
    /\ ended # NoneValue =>
          /\ ended[1].requested \subseteq ended[1].subscribed
          /\ DOMAIN ended[1].fetched \subseteq ended[1].requested
          /\ ended[1].outcome = "ok" => ended[1].requested = ended[1].subscribed

\* a cycle that returned its result with two devices known and one of them
\* subscribed
C13_Witness ==
    /\ ended # NoneValue
    /\ ended[1].outcome = "ok"
    /\ ended[1].requested # {}
    /\ DOMAIN ended[1].before = DeviceIds
    /\ ended[1].subscribed # DeviceIds

\* C17: a change that update_device reported in a cycle that failed is not
\* lost: the next cycle that lists the device and returns its result
\* publishes the "device" flag of that id as True.
C17_OwedChangeIsPublished ==
    (ended # NoneValue /\ ended[1].outcome = "ok") =>
        \A d \in FoundIn(ended[1]) :
            d.device_uuid \in ended[1].owed =>
                data[1][d.device_uuid].device = <<TRUE>>

\* the positions in the log of the cycle's last client call at which a data
\* request was answered 401
Expired(e) == {i \in 1..Len(e.log) : e.log[i].ev = "GET" /\ e.log[i].status = 401}

\* C18: a cycle in which a data request is answered 401 goes on, inside its
\* timeout, to the back-off and the replay of the login.
C18_ExpiredSessionReauthenticates ==
    ended # NoneValue =>
        \A i \in Expired(ended[1]) :
            \E j \in (i + 1)..Len(ended[1].log) : ended[1].log[j].ev = "POST"

\* a flag of a published result: absent, False or True
Flags == {NoneValue, <<FALSE>>, <<TRUE>>}

\* every result a cycle could publish
Results == [DeviceIds -> [device : Flags, location : Flags]]

\* a flag published for id is True
AnyTrue(d, id) == d[id].device = <<TRUE>> \/ d[id].location = <<TRUE>>

\* C21: after a cycle has published its result, a subscribed adapter has
\* written its state exactly when a flag published for its own id is True;
\* an adapter that is not subscribed writes nothing; and for any result a
\* cycle could publish the adapter's decision depends on the flags of its
\* own id alone.
C21_AdapterWritesOnOwnFlags ==
    (ended # NoneValue /\ ended[1].outcome = "ok") =>
        /\ written \subseteq contexts
        /\ \A id \in contexts : id \in written <=> AnyTrue(data[1], id)
        /\ \A d \in Results : \A id \in DeviceIds :
              handle_coordinator_update(d, id) <=> AnyTrue(d, id)

\* a published result with the flag of one subscribed device True and that
\* of the other False: the first adapter wrote, the second did not
C21_Witness ==
    /\ ended # NoneValue
    /\ ended[1].outcome = "ok"
    /\ contexts = DeviceIds
    /\ \E id \in DeviceIds :
          /\ data[1][id].device = <<TRUE>>
          /\ written = {id}
          /\ \A o \in DeviceIds \ {id} : data[1][o].device = <<FALSE>>

(***************************************************************************)
(* Properties of start and of the registry (Spec)                          *)
(***************************************************************************)
\* Hub.start is over: it returned ("started") or raised ("failed")
StartOver == hub.op = "start" /\ hub.pc \in {"started", "failed"}

\* C14: a start all of whose requests were answered 200 with a valid body
\* returns, with a Tracker registered for every discovered device, which
\* holds the entry of the device's history page when the page reported
\* success with an entry and no location otherwise; while start runs, a
\* device it registers is one whose history page has returned.
C14_StartSeedsRegistry ==
    /\ hub.pc = "start_history" =>
          DOMAIN devices \subseteq (DOMAIN hub.before) \cup (DOMAIN hub.fetched)
    /\ (StartOver /\ hub.allOk) =>
          /\ hub.pc = "started"
          /\ \A d \in FoundIn(hub) :
                LET id == d.device_uuid IN
                /\ id \in DOMAIN devices
                /\ id \in DOMAIN hub.fetched
                /\ devices[id]._id = id
                /\ devices[id]._name = d.name
                /\ devices[id]._last_report =
                       IF hub.fetched[id].success THEN hub.fetched[id].data
                       ELSE NoneValue

\* the login of the start or verify_credentials that is over was rejected:
\* the client raised for an HTTP status of the 4xx range
LoginRejected ==
    /\ hub.pc = "failed"
    /\ hub.cause # NoneValue
    /\ hub.cause[1].exc = "ClientResponseError"
    /\ hub.cause[1].val[1] \in 400..499

\* C15: a verify_credentials or a start whose login the server rejected with
\* a client-error status ends with InvalidCredentials, and the registry is
\* as it was before the call.
C15_RejectedLoginIsInvalidCredentials ==
    LoginRejected =>
        /\ hub.raised = "InvalidCredentials"
        /\ devices = hub.before

\* the start that is over has assigned a Tracker to the key id: the history
\* page of the device returned and held what start could index
AssignedByStart(id) ==
    /\ id \in DOMAIN hub.fetched
    /\ ~(hub.fetched[id].success /\ hub.fetched[id].data = <<>>)

\* C19: a start and a cycle leave every key of the registry in place with
\* registry[id].id = id, and a start assigns no Tracker to a key that held
\* one already.
C19_NeverRemovedNeverReplaced ==
    /\ StartOver =>
          \A id \in DOMAIN hub.before :
              /\ id \in DOMAIN devices
              /\ devices[id]._id = id
              /\ ~AssignedByStart(id)
    /\ ended # NoneValue =>
          \A id \in DOMAIN ended[1].before :
              /\ id \in DOMAIN devices
              /\ devices[id]._id = id

\* two Hub objects exist; the start and the cycles of the model run through
\* the first
Hubs == {"h1", "h2"}
RunningHub == "h1"

\* Hub.devices of hub h: _devices is an attribute of the class Hub, which
\* __init__ does not rebind, so every Hub object reads the one dict
Hub_devices(h) == devices

\* C20: what the first Hub registers does not appear in the devices of the
\* second, which has registered nothing.
C20_RegistryOwnedByOneHub ==
    \A h \in Hubs \ {RunningHub} : Hub_devices(h) = << >>

(***************************************************************************)
(* Properties of the client (SpecClient)                                   *)
(***************************************************************************)
Done(t) == result[t] # NoneValue
Events(t, ev) == {i \in 1..Len(log[t]) : log[t][i].ev = ev}
DataMethods == {"get_user_info", "find_devices", "get_device_history_page"}

\* C1: a request answered 401 is followed by the back-off, one replay of the
\* login and then one more send of the original request; when that second
\* send is answered 200 the call returns the body instead of raising.
C1_RetryAfterReauthentication ==
    \A t \in Tasks :
        ( /\ Done(t)
          /\ call[t][1] \in DataMethods
          /\ Len(log[t]) >= 3
          /\ log[t][1].ev = "GET" /\ log[t][1].status = 401
          /\ log[t][2].ev = "sleep"
          /\ log[t][3].ev = "POST" /\ log[t][3].status = 200 /\ log[t][3].valid )
        => /\ Cardinality(Events(t, "GET")) = 2
           /\ (log[t][Len(log[t])].status = 200 /\ log[t][Len(log[t])].valid)
                 => result[t][1].exc = "none"

\* C4: a login answered with a rejecting status (401 or 403) has sent exactly
\* one login request, makes no back-off and no re-authentication, and has
\* ended by raising to its caller.
C4_RejectedLoginFailsAtOnce ==
    \A t \in Tasks :
        ( /\ call[t] = <<"login">>
          /\ Len(log[t]) >= 1
          /\ log[t][1].status \in {401, 403} )
        => /\ Len(log[t]) = 1
           /\ stack[t] = <<>>
           /\ Done(t)
           /\ result[t][1].exc = "ClientResponseError"

\* C5: whatever the server answers, a data call sends its own request at most
\* twice and the login at most once, and there is no further retry.
C5_RetriesBounded ==
    \A t \in Tasks :
        (call[t] # NoneValue /\ call[t][1] \in DataMethods)
        => /\ Cardinality(Events(t, "GET")) <= 2
           /\ Cardinality(Events(t, "POST")) <= 1
           /\ Cardinality(Events(t, "sleep")) <= 1

\* task t is inside the login replay that its own 401 set off: its data
\* helper waits in _reauthenticate for the _post above it
Replaying(t) ==
    /\ Len(stack[t]) >= 2
    /\ stack[t][1].fn = "_get"
    /\ stack[t][1].pc = "reauthenticate"
    /\ Top(t).fn = "_post"

\* in this step the login request of task t is answered 200 with a valid body
LoginAnswered(t) ==
    /\ Len(log'[t]) = Len(log[t]) + 1
    /\ log'[t][Len(log'[t])].ev = "POST"
    /\ log'[t][Len(log'[t])].status = 200
    /\ log'[t][Len(log'[t])].valid

\* in this step task t sends a request
Sent(t) ==
    /\ Len(log'[t]) = Len(log[t]) + 1
    /\ log'[t][Len(log'[t])].ev \in {"GET", "POST"}

\* the Authorization header that belongs to a stored login result
HeaderOf(lr) == IF lr = NoneValue THEN "" ELSE lr[1].auth_header

\* C22: nothing orders the login replays of two calls: whenever the login
\* request of a task is answered 200 with a valid body, whatever the other
\* task is doing, the stored login result and the Authorization header
\* become those of that answer, so the replay that finishes last decides
\* both.
C22_LastReplayWins ==
    [][\A t \in Tasks :
          LoginAnswered(t) =>
              /\ login_result' = <<[auth_header |-> log'[t][Len(log'[t])].token]>>
              /\ authorization' = log'[t][Len(log'[t])].token]_vars

\* two calls on the one client are inside their login replays at once
C22_Witness == \A t \in Tasks : Replaying(t)

\* C23: the Authorization header of the session, which every request that
\* is sent carries, is the header of the stored login result and is empty
\* while there is none; both change only in a step in which a login request
\* is answered 200 with a valid body, and then together.
C23_HeaderFollowsLoginResult ==
    /\ [](authorization = HeaderOf(login_result))
    /\ [][/\ \A t \in Tasks : Sent(t) => authorization = HeaderOf(login_result)
          /\ (\A t \in Tasks : ~LoginAnswered(t))
                => UNCHANGED <<login_result, authorization>>
          /\ login_result' # login_result
                => authorization' = HeaderOf(login_result')]_vars

\* the re-authentication of a data call has put its login result and header
\* in place of those an earlier login had stored
C23_Witness ==
    /\ login_result # NoneValue
    /\ authorization = login_result[1].auth_header
    /\ \E t \in Tasks :
          /\ call[t] # NoneValue
          /\ call[t][1] \in DataMethods
          /\ Len(log[t]) >= 3
          /\ log[t][3].ev = "POST"
          /\ log[t][3].status = 200
          /\ log[t][3].token = authorization
    /\ \E t \in Tasks :
          /\ call[t] = <<"login">>
          /\ Done(t)
          /\ result[t][1].exc = "none"
          /\ result[t][1].val.auth_header # authorization

(***************************************************************************)
(* SpecTracker: one Tracker under arbitrary calls                          *)
(***************************************************************************)
\* the Tracker is constructed: __init__ makes the first update_device call
InitTracker ==
    /\ \E d \in FoundDevices :
          /\ tracker = Tracker(d)
          /\ last = [op |-> "update_device", arg |-> <<d>>,
                     before |-> <<TrackerFields(d)>>,
                     ret |-> update_device(TrackerFields(d), d).ret]
    /\ located = FALSE
    /\ InitClient
    /\ InitHub

CallUpdateDevice ==
    \E d \in FoundDevices :
        LET r == update_device(tracker, d) IN
        /\ tracker' = r.self
        /\ last' = [op |-> "update_device", arg |-> <<d>>,
                    before |-> <<tracker>>, ret |-> r.ret]
        /\ UNCHANGED located
        /\ UNCHANGED clientVars
        /\ UNCHANGED hubVars

CallUpdateLocation ==
    \E e \in HistoryEntries :
        LET r == update_location(tracker, e) IN
        /\ tracker' = r.self
        /\ last' = [op |-> "update_location", arg |-> <<e>>,
                    before |-> <<tracker>>, ret |-> r.ret]
        /\ located' = TRUE
        /\ UNCHANGED clientVars
        /\ UNCHANGED hubVars

NextTracker == CallUpdateDevice \/ CallUpdateLocation

SpecTracker == InitTracker /\ [][NextTracker]_vars

(***************************************************************************)
(* Properties of the Tracker (SpecTracker)                                 *)
(***************************************************************************)
LastBefore == last.before[1]
LastArg == last.arg[1]

\* C6: update_location with an entry whose time_created equals the stored
\* entry's time_created returns false and leaves the stored entry, and so
\* every accessor value, unchanged, whatever the other fields of the entry.
C6_SameTimestampNoOp ==
    ( /\ last.op = "update_location"
      /\ Truthy(LastBefore._last_report)
      /\ LastArg.time_created = LastBefore._last_report[1].time_created )
    => /\ last.ret = FALSE
       /\ tracker._last_report = LastBefore._last_report
       /\ Accessors(tracker) = Accessors(LastBefore)

\* a same-timestamp call whose entry differs from the stored one in position
C6_Witness ==
    /\ last.op = "update_location"
    /\ Truthy(LastBefore._last_report)
    /\ LastArg.time_created = LastBefore._last_report[1].time_created
    /\ LastArg.latitude # LastBefore._last_report[1].latitude
    /\ last.ret = FALSE

\* C7: update_location with an entry whose timestamp differs from the stored
\* one, or with nothing stored, returns true and replaces the stored entry as
\* a whole: every accessor then reads the new entry's field.
C7_NewTimestampReplaces ==
    ( /\ last.op = "update_location"
      /\ \/ ~Truthy(LastBefore._last_report)
         \/ LastArg.time_created # LastBefore._last_report[1].time_created )
    => /\ last.ret = TRUE
       /\ tracker._last_report = <<LastArg>>
       /\ latitude(tracker) = Return(LastArg.latitude)
       /\ longitude(tracker) = Return(LastArg.longitude)
       /\ address(tracker) = Return(LastArg.address)
       /\ alert_type(tracker) = Return(LastArg.alert_type)
       /\ last_report_time(tracker) = Return(LastArg.time_created)
       /\ modem_temperature(tracker) = Return(LastArg.modem_temperature)
       /\ accuracy(tracker).exc = "none"
       /\ accuracy(tracker) = accuracy([LastBefore EXCEPT !._last_report = <<LastArg>>])

\* an entry with a new timestamp replaces a stored entry that differs from it
\* in address and telemetry
C7_Witness ==
    /\ last.op = "update_location"
    /\ Truthy(LastBefore._last_report)
    /\ LastArg.time_created # LastBefore._last_report[1].time_created
    /\ LastArg.address # LastBefore._last_report[1].address
    /\ LastArg.alert_type # LastBefore._last_report[1].alert_type
    /\ tracker._last_report = <<LastArg>>

\* C8: as long as update_location has never been called on a Tracker, every
\* location-derived accessor fails with MissingDataError, whatever
\* update_device calls were made; once update_location has stored an entry
\* nothing clears it and no accessor fails.
C8_MissingDataUntilLocated ==
    /\ ~located =>
          \A a \in AccessorNames : Accessors(tracker)[a].exc = "MissingDataError"
    /\ located =>
          /\ Truthy(tracker._last_report)
          /\ \A a \in AccessorNames : Accessors(tracker)[a].exc = "none"

\* a Tracker whose name was changed by update_device and that has no location
C8_Witness ==
    /\ ~located
    /\ last.op = "update_device"
    /\ last.ret = TRUE
    /\ LastBefore._name # ""
    /\ latitude(tracker).exc = "MissingDataError"

\* C9: after every update_device call the stored name and model are those of
\* the descriptor passed in, and the call returns true exactly when the name
\* or the model differed from the values stored before the call.
C9_UpdateDeviceOverwrites ==
    last.op = "update_device" =>
        /\ tracker._name = LastArg.name
        /\ tracker._model = LastArg.device_type
        /\ last.ret = ( \/ LastBefore._name # LastArg.name
                        \/ LastBefore._model # LastArg.device_type )

\* a registered Tracker is renamed: the call returns true and the new name
\* is stored
C9_Witness ==
    /\ last.op = "update_device"
    /\ LastBefore._model = "shield_gps"
    /\ LastBefore._name # ""
    /\ LastBefore._name # LastArg.name
    /\ last.ret = TRUE
    /\ tracker._name = LastArg.name

\* C16: for a Tracker that holds a location, the accuracy accessor returns
\* 10000 when the stored accuracy is zero and otherwise the stored accuracy
\* cut to an integer: the whole metres r with r <= accuracy < r + 1 (the
\* stored value is in tenths of a metre).
C16_AccuracyDefaultsOrTruncates ==
    Truthy(tracker._last_report) =>
        LET stored == tracker._last_report[1].accuracy
            r == accuracy(tracker)
        IN  /\ r.exc = "none"
            /\ r.val \in Nat
            /\ stored = 0 => r.val = 10000
            /\ stored # 0 => (r.val * 10 <= stored /\ stored < r.val * 10 + 10)

\* a report without accuracy has been stored by update_location and the
\* accessor gives the default
C16_Witness ==
    /\ last.op = "update_location"
    /\ last.ret = TRUE
    /\ Truthy(tracker._last_report)
    /\ tracker._last_report[1].accuracy = 0
    /\ accuracy(tracker) = Return(10000)

=============================================================================
